---- MODULE Spec2Model ----
(***************************************************************************)
(* Model of the documentation annotation pipeline of openapi-review-lib:   *)
(* src/src/docsProcessor.ts (the header variant) and src/unnamed/part_000  *)
(* (the basic variant), driven by process(), and of the driver that calls  *)
(* it, OpenApiReview.run() of src/src/openApiReview.ts.                    *)
(*                                                                         *)
(* A document tree is the sequence of the root's children; a node is a     *)
(* record [type, depth, value, children, id, owner].  Sequence positions   *)
(* are 1-based: the JavaScript index i of the source is position i + 1.    *)
(* id and owner are history fields: id numbers the nodes of the parsed     *)
(* document (0 for a node a stage inserted), owner is the id of the        *)
(* heading a stage inserted the node for.  No stage reads them.            *)
(***************************************************************************)
EXTENDS Integers, Sequences, FiniteSets, TLC

VARIABLES
    variant,    \* "header" (docsProcessor.ts) or "basic" (part_000)
    tree,       \* the root's children, mutated in place by the stages
    specs,      \* the spec documents given to process()
    specsDiff,  \* the DiffOutcome given to process()
    pc,         \* the stage the pipeline has completed
    stages,     \* the stages run so far, in order
    stripped,   \* the tree as removeUnwantedNodes left it
    wrapped,    \* the tree as wrapOperationsWithDetails left it
    output,     \* what process() resolves to: Absent, or Some(tree)
    parsed,     \* the tree as remark parsed it
    visits,     \* the visitor calls of each visit() so far: [kind, log]
    cDiffs, cLocation, cResult, cpc,  \* one call of findMatchingDifference
    promises,   \* incrementHeadingDepth: the state of each pushed promise
    npc,        \* incrementHeadingDepth: "idle", "awaiting" or "settled"
    received,   \* the tree incrementHeadingDepth received
    lSpecs, lId, lResult, lpc,        \* one call of getOperationLocation
    context,    \* OpenApiReview: the context given to the constructor
    rpc,        \* run(): its position
    procs,      \* the processSpec call of each changed spec
    comments,   \* the createPullRequestComment calls that succeeded
    failures,   \* the arguments of the setFailed calls, in order
    rejected    \* the spec whose failure rejected Promise.all, 0 when none

pipeVars == <<variant, tree, specs, specsDiff, pc, stages, stripped, wrapped, output,
              parsed, visits>>
corrVars == <<cDiffs, cLocation, cResult, cpc>>
normVars == <<promises, npc, received>>
locVars == <<lSpecs, lId, lResult, lpc>>
drvVars == <<context, rpc, procs, comments, failures, rejected>>

vars == <<pipeVars, corrVars, normVars, locVars, drvVars>>

\* ------------------------------------------------------------------ bounds
MaxBlocks == 3      \* blocks a parsed document is made of
MaxLocLen == 3      \* characters of a location string given to the correlator

\* ----------------------------------------------------------------- strings
\* A string whose content a stage inspects is a sequence of characters, so
\* that String.prototype.startsWith is the prefix relation on sequences.
StartsWith(s, p) ==
    /\ Len(p) <= Len(s)
    /\ \A i \in 1..Len(p) : s[i] = p[i]

\* A value that may be undefined is a sequence of at most one element:
\* Absent is undefined and Some(x) is the value x.
Absent == <<>>
Some(x) == <<x>>
IsAbsent(o) == Len(o) = 0
Get(o) == o[1]

\* String(undefined): startsWith coerces its argument to a string.  The
\* character "U" stands for the nine letters of the text undefined.
UndefinedText == <<"U">>

ToStr(o) == IF IsAbsent(o) THEN UndefinedText ELSE Get(o)

\* Array.prototype.join(".")
RECURSIVE Join(_)
Join(parts) ==
    IF Len(parts) = 0 THEN <<>>
    ELSE IF Len(parts) = 1 THEN parts[1]
    ELSE parts[1] \o <<".">> \o Join(Tail(parts))

\* ------------------------------------------------------------------- nodes
Leaf(t, v, i) ==
    [type |-> t, depth |-> 0, value |-> v, children |-> <<>>, id |-> i, owner |-> 0]

Par(t, cs, i) ==
    [type |-> t, depth |-> 0, value |-> "", children |-> cs, id |-> i, owner |-> 0]

Heading(d, txt, i) ==
    [type |-> "heading", depth |-> d, value |-> "",
     children |-> <<Leaf("text", txt, i + 1)>>, id |-> i, owner |-> 0]

\* node.children is an array for these types and undefined for the others
IsParent(node) ==
    node.type \in {"heading", "paragraph", "blockquote", "strong", "link",
                   "table", "tableRow", "tableCell"}

\* node.value is a string for these types and undefined for the others
HasValue(node) == node.type \in {"text", "html"}

\* the nodes of the tree cs in document order
RECURSIVE Flatten(_)
Flatten(cs) ==
    IF cs = <<>> THEN <<>>
    ELSE <<Head(cs)>> \o Flatten(Head(cs).children) \o Flatten(Tail(cs))

\* ----------------------------------------------------- html and text values
H1Html     == "<h1 id=\"api\">API v1</h1>"
H2Html     == "<h2 id=\"tocS\">Schemas</h2>"
H2Rewritten == "<h2 id=\"api\">\n\tAPI v1\n</h2>"
H3Rewritten == "<h3 id=\"tocS\">\n\tSchemas\n</h3>"
AnchorA    == "<a id=\"opIda\">"
AnchorZ    == "<a id=\"opIdz\">"
DetailsOpen  == "<details>\n<summary>Docs</summary>"
DetailsClose == "</details>"
ScrollText == "Scroll down for code samples"
AuthText   == "Authentication"
OpText     == "Operation"
BodyText   == "Body"

\* (node.value as string).startsWith("<h1")
StartsWithH1(v) == v = H1Html

\* text.value.startsWith("Scroll down for")
StartsWithScroll(v) == v = ScrollText

\* value.match(/^<h(\d).*<\/h\d>$/m): the depth of the heading tag that
\* makes up one line of the value, 0 when no line is one
HtmlHeadingDepth(v) ==
    CASE v = H1Html -> 1
      [] v = H2Html -> 2
      [] OTHER -> 0

NoMatch == "null"      \* String.prototype.match found nothing

\* value.match(/"opId(.*)"/): the captured group, or NoMatch
OpIdMatch(v) ==
    CASE v = AnchorA -> "a"
      [] v = AnchorZ -> "z"
      [] OTHER -> NoMatch

\* unist-util-find, find(node, { type: "text" }): the value of the first text
\* node of the subtree in document order, Absent when there is none
RECURSIVE FindTextValue(_), FindTextValueIn(_)
FindTextValue(node) ==
    IF node.type = "text" THEN Some(node.value) ELSE FindTextValueIn(node.children)

FindTextValueIn(cs) ==
    IF cs = <<>> THEN Absent
    ELSE LET v == FindTextValue(Head(cs))
         IN IF ~IsAbsent(v) THEN v ELSE FindTextValueIn(Tail(cs))

\* Mutant of Splice: splice(start, 1, x), which puts x in the place of the
\* node at index start.
SpliceOver(cs, start, x) ==
    LET n == IF start > Len(cs) THEN Len(cs) ELSE start
    IN SubSeq(cs, 1, n) \o <<x>> \o SubSeq(cs, n + 2, Len(cs))

\* Array.prototype.splice(start, 0, x) with start a JavaScript index: x ends
\* up with start elements before it, or at the end when start is too large
Splice(cs, start, x) ==
    LET n == IF start > Len(cs) THEN Len(cs) ELSE start
    IN SubSeq(cs, 1, n) \o <<x>> \o SubSeq(cs, n + 1, Len(cs))

\* Array.prototype.splice(index, 1), the node at position k removed
RemoveAt(cs, k) == SubSeq(cs, 1, k - 1) \o SubSeq(cs, k + 1, Len(cs))

\* ----------------------------------------------------------------- isHeading
IsCorrectDepth(depth, depthIsMax, nodeDepth) ==
    IF depth = 0 THEN TRUE
    ELSE IF depthIsMax THEN nodeDepth <= depth
    ELSE nodeDepth = depth

IsHeading(depth, depthIsMax, node) ==
    IF node.type = "heading" THEN IsCorrectDepth(depth, depthIsMax, node.depth)
    ELSE IF node.type = "html" /\ HtmlHeadingDepth(node.value) # 0
         THEN IsCorrectDepth(depth, depthIsMax, HtmlHeadingDepth(node.value))
    ELSE FALSE

\* --------------------------------------------- operation locator, correlator
\* A spec document is [paths |-> <<[route, operations]>>], operations a
\* sequence of [method, operationId], both in insertion order.
RECURSIVE ScanOperations(_, _, _), ScanRoutes(_, _), GetOperationLocation(_, _)
ScanOperations(route, ops, operationId) ==
    IF ops = <<>> THEN Absent
    ELSE IF Head(ops).operationId = operationId
         THEN Some(Join(<< <<"paths">>, route, Head(ops).method >>))
    ELSE ScanOperations(route, Tail(ops), operationId)

ScanRoutes(paths, operationId) ==
    IF paths = <<>> THEN Absent
    ELSE LET r == ScanOperations(Head(paths).route, Head(paths).operations, operationId)
         IN IF ~IsAbsent(r) THEN r ELSE ScanRoutes(Tail(paths), operationId)

\* Mutant of GetOperationLocation: the later documents are scanned first.
RECURSIVE GetOperationLocationLastFirst(_, _)
GetOperationLocationLastFirst(ss, operationId) ==
    IF ss = <<>> THEN Absent
    ELSE LET r == GetOperationLocationLastFirst(Tail(ss), operationId)
         IN IF ~IsAbsent(r) THEN r ELSE ScanRoutes(Head(ss).paths, operationId)

GetOperationLocation(ss, operationId) ==
    IF ss = <<>> THEN Absent
    ELSE LET r == ScanRoutes(Head(ss).paths, operationId)
         IN IF ~IsAbsent(r) THEN r ELSE GetOperationLocation(Tail(ss), operationId)

\* Mutant of LocationMatches: equality in place of startsWith.
LocationEquals(location, operationLocation) ==
    location = ToStr(operationLocation)

\* ({ location }) => location.startsWith(operationLocation)
LocationMatches(location, operationLocation) ==
    StartsWith(location, ToStr(operationLocation))

\* details.some(...)
RECURSIVE SomeLocation(_, _)
SomeLocation(details, operationLocation) ==
    IF details = <<>> THEN FALSE
    ELSE IF LocationMatches(Head(details).location, operationLocation) THEN TRUE
    ELSE SomeLocation(Tail(details), operationLocation)

DiffMatches(diff, operationLocation) ==
    \/ SomeLocation(diff.sourceSpecEntityDetails, operationLocation)
    \/ SomeLocation(diff.destinationSpecEntityDetails, operationLocation)

\* diffs.some(...)
RECURSIVE SomeDiff(_, _)
SomeDiff(diffs, operationLocation) ==
    IF diffs = <<>> THEN FALSE
    ELSE IF DiffMatches(Head(diffs), operationLocation) THEN TRUE
    ELSE SomeDiff(Tail(diffs), operationLocation)

\* diffs is Absent or Some(array of DiffResult), operationLocation is Absent
\* or Some(string); the result is Absent (undefined), Some(TRUE) or Some(FALSE)
FindMatchingDifference(diffs, operationLocation) ==
    IF IsAbsent(diffs) THEN Absent
    ELSE Some(SomeDiff(Get(diffs), operationLocation))

\* the truthiness of such a result
Truthy(o) == ~IsAbsent(o) /\ Get(o)

\* ------------------------------------------------------------------ visitors
\* What a visitor hands back to the traversal: the parent's children as it
\* left them, whether it returned visit.SKIP, the position to go on from (0
\* when it returned no index), and whether it threw.
Continue(cs) == [cs |-> cs, skip |-> FALSE, next |-> 0, err |-> FALSE]
SkipTo(cs, k) == [cs |-> cs, skip |-> TRUE, next |-> k, err |-> FALSE]
Throw(cs) == [cs |-> cs, skip |-> FALSE, next |-> 0, err |-> TRUE]

\* removeUnwantedNodes, first rule
RemoveHtmlVisitor(cs, k) ==
    IF StartsWithH1(cs[k].value) THEN SkipTo(RemoveAt(cs, k), k) ELSE Continue(cs)

\* removeUnwantedNodes, second rule
RemoveBlockquoteVisitor(cs, k) ==
    LET text == FindTextValue(cs[k])
    IN IF ~IsAbsent(text) /\ StartsWithScroll(Get(text))
       THEN SkipTo(RemoveAt(cs, k), k) ELSE Continue(cs)

\* removeUnwantedNodes, third rule (header variant)
RemoveHeadingVisitor(cs, k) ==
    LET text == FindTextValue(cs[k])
    IN IF ~IsAbsent(text) /\ Get(text) = AuthText
       THEN SkipTo(RemoveAt(cs, k), k) ELSE Continue(cs)

OpenMarker(h)  == [Leaf("html", DetailsOpen, 0) EXCEPT !.owner = h.id]
CloseMarker(h) == [Leaf("html", DetailsClose, 0) EXCEPT !.owner = h.id]

\* Mutant of WrapOffset: the opening marker directly after the heading.
WrapOffsetOne(v, node) == 1

\* Mutant of WrapOffset: the header variant takes every node it visits for
\* an html heading.
WrapOffsetHtml(v, node) == IF v = "header" THEN 1 ELSE 2

\* const offset = node.type === "heading" ? 2 : 1 (always 2 in the basic variant)
WrapOffset(v, node) ==
    IF v = "header" THEN (IF node.type = "heading" THEN 2 ELSE 1) ELSE 2

\* the node test of the closing boundary: isHeading(2, true) in the header
\* variant, { type: "heading", depth: 2 } in the basic variant
IsBoundary(v, node) ==
    IF v = "header" THEN IsHeading(2, TRUE, node)
    ELSE node.type = "heading" /\ node.depth = 2

\* children.slice(start).findIndex(test), plus start: the JavaScript index of
\* the first boundary at or after index start, -1 when there is none
RECURSIVE FindBoundary(_, _, _)
FindBoundary(v, cs, start) ==
    IF start >= Len(cs) THEN -1
    ELSE IF IsBoundary(v, cs[start + 1]) THEN start
    ELSE FindBoundary(v, cs, start + 1)

\* Mutant of WrapVisitor: no closing marker when no boundary heading follows.
WrapVisitorNoCloseAtEnd(v, cs, k) ==
    LET node == cs[k]
        start == (k - 1) + WrapOffset(v, node)
        cs1 == Splice(cs, start, OpenMarker(node))
        found == FindBoundary(v, cs1, start)
    IN Continue(IF found > -1 THEN Splice(cs1, found, CloseMarker(node)) ELSE cs1)

\* the visitor of wrapOperationsWithDetails, on the heading at position k
WrapVisitor(v, cs, k) ==
    LET node == cs[k]
        start == (k - 1) + WrapOffset(v, node)
        cs1 == Splice(cs, start, OpenMarker(node))
        found == FindBoundary(v, cs1, start)
        nextIndex == IF found > -1 THEN found ELSE Len(cs1)
    IN Continue(Splice(cs1, nextIndex, CloseMarker(node)))

Siren == "siren"
Warning == "warning"
BreakingMessage == "BREAKING CHANGES"
ChangesMessage == "CHANGES"

\* createNotifierNode(message, emoji)
CreateNotifierNode(message, emoji) ==
    Par("paragraph",
        << Leaf("text", emoji, 0),
           Par("strong", <<Leaf("text", message, 0)>>, 0),
           Leaf("text", emoji, 0) >>, 0)

\* Mutant of ChooseNotifier: breakingDifferencesFound is not consulted.
ChooseNotifierUnguarded(diff, operationLocation) ==
    IF Truthy(FindMatchingDifference(diff.breakingDifferences, operationLocation))
    THEN "breaking"
    ELSE IF \/ Truthy(FindMatchingDifference(diff.nonBreakingDifferences, operationLocation))
            \/ Truthy(FindMatchingDifference(diff.unclassifiedDifferences, operationLocation))
    THEN "changes"
    ELSE "none"

\* Mutant of ChooseNotifier: the two branches in the other order.
ChooseNotifierChangesFirst(diff, operationLocation) ==
    IF \/ Truthy(FindMatchingDifference(diff.nonBreakingDifferences, operationLocation))
       \/ Truthy(FindMatchingDifference(diff.unclassifiedDifferences, operationLocation))
    THEN "changes"
    ELSE IF diff.breakingDifferencesFound
            /\ Truthy(FindMatchingDifference(diff.breakingDifferences, operationLocation))
    THEN "breaking"
    ELSE "none"

\* Mutant of ChooseNotifier: a CHANGES marker for every operation.
ChooseNotifierAlways(diff, operationLocation) == "changes"

\* the marker insertChangeNotifier chooses for an operation location:
\* "breaking", "changes" or "none"
ChooseNotifier(diff, operationLocation) ==
    IF diff.breakingDifferencesFound
       /\ Truthy(FindMatchingDifference(diff.breakingDifferences, operationLocation))
    THEN "breaking"
    ELSE IF \/ Truthy(FindMatchingDifference(diff.nonBreakingDifferences, operationLocation))
            \/ Truthy(FindMatchingDifference(diff.unclassifiedDifferences, operationLocation))
    THEN "changes"
    ELSE "none"

\* whether reading the operation id after the heading at position k throws a
\* TypeError: parent.children[index + 1] is undefined, or has no children, or
\* no first child, or the first child has no value, or match() returns null
ReadOperationIdThrows(cs, k) ==
    \/ k + 1 > Len(cs)
    \/ ~IsParent(cs[k + 1])
    \/ Len(cs[k + 1].children) = 0
    \/ ~HasValue(cs[k + 1].children[1])
    \/ OpIdMatch(cs[k + 1].children[1].value) = NoMatch

\* Mutant of NotifierVisitor: the marker spliced in at index + 2, after the
\* operation-id sibling.
NotifierVisitorAfterId(ss, diff, cs, k) ==
    IF ReadOperationIdThrows(cs, k) THEN Throw(cs)
    ELSE LET operationId == OpIdMatch(cs[k + 1].children[1].value)
             operationLocation == GetOperationLocation(ss, operationId)
             choice == ChooseNotifier(diff, operationLocation)
             notifierNode ==
                 IF choice = "breaking" THEN CreateNotifierNode(BreakingMessage, Siren)
                 ELSE CreateNotifierNode(ChangesMessage, Warning)
         IN IF choice = "none" THEN Continue(cs)
            ELSE SkipTo(Splice(cs, k + 1, [notifierNode EXCEPT !.owner = cs[k].id]), k + 2)

\* Mutant of NotifierVisitor: the marker spliced in at index, before the
\* heading.
NotifierVisitorBeforeHeading(ss, diff, cs, k) ==
    IF ReadOperationIdThrows(cs, k) THEN Throw(cs)
    ELSE LET operationId == OpIdMatch(cs[k + 1].children[1].value)
             operationLocation == GetOperationLocation(ss, operationId)
             choice == ChooseNotifier(diff, operationLocation)
             notifierNode ==
                 IF choice = "breaking" THEN CreateNotifierNode(BreakingMessage, Siren)
                 ELSE CreateNotifierNode(ChangesMessage, Warning)
         IN IF choice = "none" THEN Continue(cs)
            ELSE SkipTo(Splice(cs, k - 1, [notifierNode EXCEPT !.owner = cs[k].id]), k + 2)

\* the visitor of insertChangeNotifier, on the heading at position k
NotifierVisitor(ss, diff, cs, k) ==
    IF ReadOperationIdThrows(cs, k) THEN Throw(cs)
    ELSE LET operationId == OpIdMatch(cs[k + 1].children[1].value)
             operationLocation == GetOperationLocation(ss, operationId)
             choice == ChooseNotifier(diff, operationLocation)
             notifierNode ==
                 IF choice = "breaking" THEN CreateNotifierNode(BreakingMessage, Siren)
                 ELSE CreateNotifierNode(ChangesMessage, Warning)
         IN IF choice = "none" THEN Continue(cs)
            ELSE SkipTo(Splice(cs, k, [notifierNode EXCEPT !.owner = cs[k].id]), k + 1)

\* ----------------------------------------------------------------- traversal
\* the test of each visit() call
Test(kind, ctx, node) ==
    CASE kind = "html" -> node.type = "html"
      [] kind = "blockquote" -> node.type = "blockquote"
      [] kind = "heading" -> node.type = "heading"
      [] kind = "wrap" ->
            IF ctx.variant = "header" THEN IsHeading(2, FALSE, node)
            ELSE node.type = "heading" /\ node.depth = 2
      [] kind = "notify" -> node.type = "heading" /\ node.depth = 2

Visitor(kind, ctx, cs, k) ==
    CASE kind = "html" -> RemoveHtmlVisitor(cs, k)
      [] kind = "blockquote" -> RemoveBlockquoteVisitor(cs, k)
      [] kind = "heading" -> RemoveHeadingVisitor(cs, k)
      [] kind = "wrap" -> WrapVisitor(ctx.variant, cs, k)
      [] kind = "notify" -> NotifierVisitor(ctx.specs, ctx.specsDiff, cs, k)

\* unist-util-visit over the children cs of one parent, from position k on:
\* the visitor runs on each node the test accepts; unless it returned SKIP
\* the node's own children are traversed next; the traversal goes on at the
\* position the visitor returned, or at the next one.  A visitor that does
\* not return SKIP leaves the node at position k.  The result is the
\* children after the traversal, whether a visitor threw, and the ids of the
\* nodes the visitor was called on, in the order of the calls.
RECURSIVE VisitAll(_, _, _, _)

\* Mutant of VisitNext: the index a visitor returns is ignored and the
\* traversal goes on at the next position.
VisitNextSibling(kind, ctx, node, k, called, r, sub) ==
    LET descend == IsParent(node) /\ ~r.skip /\ ~r.err
        cs2 == IF descend THEN [r.cs EXCEPT ![k].children = sub.cs] ELSE r.cs
        log == (IF called THEN <<node.id>> ELSE <<>>) \o sub.log
    IN IF r.err \/ sub.err THEN [cs |-> cs2, err |-> TRUE, log |-> log]
       ELSE [VisitAll(kind, ctx, cs2, k + 1) EXCEPT !.log = log \o @]

\* the traversal after the node at position k: r is what the visitor handed
\* back (Continue when it was not called) and sub the traversal of the
\* node's children
VisitNext(kind, ctx, node, k, called, r, sub) ==
    LET descend == IsParent(node) /\ ~r.skip /\ ~r.err
        cs2 == IF descend THEN [r.cs EXCEPT ![k].children = sub.cs] ELSE r.cs
        log == (IF called THEN <<node.id>> ELSE <<>>) \o sub.log
    IN IF r.err \/ sub.err THEN [cs |-> cs2, err |-> TRUE, log |-> log]
       ELSE [VisitAll(kind, ctx, cs2, IF r.next # 0 THEN r.next ELSE k + 1)
                EXCEPT !.log = log \o @]

\* the traversal of the children of the node at position k, unless the
\* visitor returned SKIP or threw
VisitNode(kind, ctx, node, k, called, r) ==
    VisitNext(kind, ctx, node, k, called, r,
              IF IsParent(node) /\ ~r.skip /\ ~r.err
              THEN VisitAll(kind, ctx, node.children, 1)
              ELSE [cs |-> node.children, err |-> FALSE, log |-> <<>>])

VisitAll(kind, ctx, cs, k) ==
    IF k > Len(cs) THEN [cs |-> cs, err |-> FALSE, log |-> <<>>]
    ELSE VisitNode(kind, ctx, cs[k], k, Test(kind, ctx, cs[k]),
                   IF Test(kind, ctx, cs[k]) THEN Visitor(kind, ctx, cs, k)
                   ELSE Continue(cs))

\* -------------------------------------------------------------------- stages
Ctx(v, ss, diff) == [variant |-> v, specs |-> ss, specsDiff |-> diff]

NoCtx(v) == Ctx(v, <<>>, <<>>)

RemoveUnwantedNodes(v, t) ==
    LET a == VisitAll("html", NoCtx(v), t, 1).cs
        b == VisitAll("blockquote", NoCtx(v), a, 1).cs
    IN IF v = "header" THEN VisitAll("heading", NoCtx(v), b, 1).cs ELSE b

\* the visitor calls of the visit() calls of removeUnwantedNodes
RemoveUnwantedNodesVisits(v, t) ==
    LET a == VisitAll("html", NoCtx(v), t, 1)
        b == VisitAll("blockquote", NoCtx(v), a.cs, 1)
        c == VisitAll("heading", NoCtx(v), b.cs, 1)
    IN << [kind |-> "html", log |-> a.log], [kind |-> "blockquote", log |-> b.log] >>
       \o (IF v = "header" THEN << [kind |-> "heading", log |-> c.log] >> ELSE <<>>)

WrapOperationsWithDetails(v, t) == VisitAll("wrap", NoCtx(v), t, 1).cs

WrapOperationsWithDetailsVisits(v, t) ==
    << [kind |-> "wrap", log |-> VisitAll("wrap", NoCtx(v), t, 1).log] >>

\* [cs, err]: the tree as the stage left it and whether the stage threw
InsertChangeNotifier(v, ss, diff, t) == VisitAll("notify", Ctx(v, ss, diff), t, 1)

\* the html values in which forEachChildNode finds a tag h<digit>
HasHeadingTag(v) == v \in {H1Html, H2Html}

\* the value with every tag h<n> renamed h<n+1>, as toFormattedString prints it
RewriteHeadingTags(v) ==
    CASE v = H1Html -> H2Rewritten
      [] v = H2Html -> H3Rewritten
      [] OTHER -> v

\* the ids of the html nodes whose value holds a heading tag
RECURSIVE HeadingTagIds(_)
HeadingTagIds(cs) ==
    IF cs = <<>> THEN {}
    ELSE LET n == Head(cs)
         IN (IF n.type = "html" /\ HasHeadingTag(n.value) THEN {n.id} ELSE {})
            \cup HeadingTagIds(n.children) \cup HeadingTagIds(Tail(cs))

\* incrementHeadingDepth: every heading one level deeper, and every html node
\* rewritten unless its parse/rewrite task failed (the nodes of failed)
RECURSIVE IncrementHeadingDepth(_, _)
IncrementHeadingDepth(cs, failed) ==
    [i \in 1..Len(cs) |->
        LET n == cs[i]
            m == IF n.type = "heading" THEN [n EXCEPT !.depth = @ + 1]
                 ELSE IF n.type = "html" /\ HasHeadingTag(n.value) /\ n.id \notin failed
                      THEN [n EXCEPT !.value = RewriteHeadingTags(@)]
                 ELSE n
        IN [m EXCEPT !.children = IncrementHeadingDepth(@, failed)]]

\* Array.prototype.length of an array that may be absent
Count(o) == IF IsAbsent(o) THEN 0 ELSE Len(Get(o))

\* the counts of the summary table, in the order of changeClassifications
ChangeClassifications(diff) ==
    << [name |-> "Breaking",
        count |-> IF diff.breakingDifferencesFound
                  THEN Len(Get(diff.breakingDifferences)) ELSE 0],
       [name |-> "Non-breaking", count |-> Count(diff.nonBreakingDifferences)],
       [name |-> "Unclassified", count |-> Count(diff.unclassifiedDifferences)] >>

TableRow(a, b) ==
    Par("tableRow", << Par("tableCell", <<a>>, 0), Par("tableCell", <<b>>, 0) >>, 0)

PoweredBy(name) ==
    Par("blockquote",
        << Par("paragraph",
               << Leaf("text", "Powered by", 0),
                  Par("link", <<Leaf("text", name, 0)>>, 0) >>, 0) >>, 0)

\* the nodes insertHeader prepends
Header(diff) ==
    LET cc == ChangeClassifications(diff)
        banner == IF diff.breakingDifferencesFound
                  THEN <<CreateNotifierNode(BreakingMessage, Siren)>> ELSE <<>>
    IN << [Heading(1, "OpenAPI Review", 0) EXCEPT !.children[1].id = 0],
          Par("blockquote", <<Par("strong", <<Leaf("text", "Spec: specPath", 0)>>, 0)>>, 0),
          [Heading(2, "OpenAPI Diff", 0) EXCEPT !.children[1].id = 0],
          PoweredBy("openapi-diff") >>
       \o banner
       \o << Par("table",
                 <<TableRow(Leaf("text", "Change Classification", 0), Leaf("text", "Count", 0))>>
                 \o [i \in 1..Len(cc) |->
                        TableRow(Par("link", <<Leaf("text", cc[i].name, 0)>>, 0),
                                 Leaf("text", ToString(cc[i].count), 0))], 0),
             Leaf("html", "<details>\n<summary>Diff</summary>", 0),
             Leaf("code", "JSON.stringify(specsDiff, null, 2)", 0),
             Leaf("html", DetailsClose, 0),
             [Heading(2, "OpenAPI Docs", 0) EXCEPT !.children[1].id = 0],
             PoweredBy("widdershins") >>

\* Mutant of InsertHeader: the header pushed after the documentation.
AppendHeader(diff, t) == t \o Header(diff)

\* tree.children.unshift(...header)
InsertHeader(diff, t) == Header(diff) \o t

\* ------------------------------------------------------------------- inputs
\* The blocks a parsed document is made of, as remark parses the text the
\* doc generator writes.  Block(b, n) is block b as the n-th block.
BlockNames == {"op_a", "op_z", "h2", "h1", "para", "h1html", "h2html", "auth",
               "scroll", "quote"}

AnchorParagraph(anchor, i) == Par("paragraph", <<Leaf("html", anchor, i + 1)>>, i)

Block(b, n) ==
    LET i == 10 * n
    IN CASE b = "op_a" -> << Heading(2, OpText, i + 1), AnchorParagraph(AnchorA, i + 3) >>
         [] b = "op_z" -> << Heading(2, OpText, i + 1), AnchorParagraph(AnchorZ, i + 3) >>
         [] b = "h2" -> << Heading(2, OpText, i + 1) >>
         [] b = "h1" -> << Heading(1, OpText, i + 1) >>
         [] b = "para" -> << Par("paragraph", <<Leaf("text", BodyText, i + 2)>>, i + 1) >>
         [] b = "h1html" -> << Leaf("html", H1Html, i + 1) >>
         [] b = "h2html" -> << Leaf("html", H2Html, i + 1) >>
         [] b = "auth" -> << Heading(1, AuthText, i + 1) >>
         [] b = "scroll" ->
               << Par("blockquote",
                      <<Par("paragraph", <<Leaf("text", ScrollText, i + 3)>>, i + 2)>>,
                      i + 1) >>
         [] b = "quote" ->
               << Par("blockquote",
                      << Heading(2, AuthText, i + 2),
                         Par("paragraph",
                             << Leaf("html", AnchorA, i + 5),
                                Leaf("text", ScrollText, i + 6) >>, i + 4) >>,
                      i + 1) >>

RECURSIVE Document(_, _)
Document(bs, n) ==
    IF n > Len(bs) THEN <<>> ELSE Block(bs[n], n) \o Document(bs, n + 1)

Documents == { Document(bs, 1) : bs \in UNION { [1..n -> BlockNames] : n \in 0..MaxBlocks } }

\* The base and the head spec document: operation a is GET /p in both, and
\* the head adds operation b, POST /p.
BaseSpec ==
    [paths |-> << [route |-> <<"/p">>,
                   operations |-> << [method |-> <<"get">>, operationId |-> "a"] >>] >>]

HeadSpec ==
    [paths |-> << [route |-> <<"/p">>,
                   operations |-> << [method |-> <<"get">>, operationId |-> "a"],
                                     [method |-> <<"post">>, operationId |-> "b"] >>] >>]

PathA == <<"paths", ".", "/p", ".", "get">>
PathB == <<"paths", ".", "/p", ".", "post">>

DiffSource(loc) ==
    [sourceSpecEntityDetails |-> <<[location |-> loc]>>,
     destinationSpecEntityDetails |-> <<>>]

DiffDestination(loc) ==
    [sourceSpecEntityDetails |-> <<>>,
     destinationSpecEntityDetails |-> <<[location |-> loc]>>]

\* a DiffOutcome; each array is Absent (undefined) or Some(array)
DiffOutcome(found, breaking, nonBreaking, unclassified) ==
    [breakingDifferencesFound |-> found, breakingDifferences |-> breaking,
     nonBreakingDifferences |-> nonBreaking, unclassifiedDifferences |-> unclassified]

\* The diff outcomes given to process(): no array at all; a breaking
\* difference below operation a with the flag false and with the flag true;
\* a breaking difference at operation b, alone and next to unclassified
\* differences, one of them at a location that begins with the text
\* undefined; the flag true without the array.
DiffOutcomes ==
    { DiffOutcome(FALSE, Absent, Absent, Absent),
      DiffOutcome(FALSE, Some(<<DiffSource(PathA \o <<".", "responses">>)>>),
                  Some(<<DiffDestination(PathA)>>), Some(<<>>)),
      DiffOutcome(TRUE, Some(<<DiffSource(PathA \o <<".", "responses">>)>>),
                  Some(<<DiffDestination(PathA)>>), Some(<<>>)),
      DiffOutcome(TRUE, Some(<<DiffDestination(PathB)>>), Absent,
                  Some(<< DiffSource(UndefinedText \o <<".", "x">>),
                          DiffDestination(PathA \o <<".", "x">>) >>)),
      DiffOutcome(TRUE, Some(<<DiffDestination(PathB)>>), Some(<<>>), Absent),
      DiffOutcome(TRUE, Absent, Some(<<>>), Absent) }

\* -------------------------------------------------------------- the pipeline
\* process(): remark parses the contents, runs the transformers in the order
\* of the use() calls and serializes the tree; an exception of a transformer
\* rejects the promise process() returns.

\* Mutant of Pipeline: the notifier inserter registered before the collapser.
PipelineNotifierFirst(v) ==
    IF v = "header"
    THEN << "removeUnwantedNodes", "insertChangeNotifier", "wrapOperationsWithDetails",
            "incrementHeadingDepth", "insertHeader" >>
    ELSE << "removeUnwantedNodes", "insertChangeNotifier", "wrapOperationsWithDetails" >>

\* the transformers in the order of the use() calls of process()
Pipeline(v) ==
    IF v = "header"
    THEN << "removeUnwantedNodes", "wrapOperationsWithDetails", "insertChangeNotifier",
            "incrementHeadingDepth", "insertHeader" >>
    ELSE << "removeUnwantedNodes", "wrapOperationsWithDetails", "insertChangeNotifier" >>

\* the transformer unified runs next, "none" when there is none left
NextStage ==
    IF pc = "running" /\ Len(stages) < Len(Pipeline(variant))
    THEN Pipeline(variant)[Len(stages) + 1] ELSE "none"

\* the parts of the state a specification does not use
CorrelatorIdle ==
    cDiffs = Absent /\ cLocation = <<>> /\ cResult = Absent /\ cpc = "idle"

NormalizerIdle == promises = <<>> /\ npc = "idle" /\ received = <<>>

LocatorIdle == lSpecs = <<>> /\ lId = "" /\ lResult = Absent /\ lpc = "idle"

DriverIdle ==
    /\ context = [pullRequest |-> FALSE, failOnBreakingChanges |-> "undefined"]
    /\ rpc = "idle" /\ procs = <<>> /\ comments = <<>> /\ failures = <<>>
    /\ rejected = 0

PipelineIdle ==
    /\ variant = "basic" /\ tree = <<>> /\ specs = <<>>
    /\ specsDiff = DiffOutcome(FALSE, Absent, Absent, Absent)
    /\ pc = "idle" /\ stages = <<>> /\ stripped = <<>> /\ wrapped = <<>>
    /\ output = Absent /\ parsed = <<>> /\ visits = <<>>

Init ==
    /\ variant \in {"header", "basic"}
    /\ tree \in Documents
    /\ parsed = tree
    /\ visits = <<>>
    /\ specs = <<BaseSpec, HeadSpec>>
    /\ specsDiff \in DiffOutcomes
    /\ pc = "running"
    /\ stages = <<>>
    /\ stripped = <<>>
    /\ wrapped = <<>>
    /\ output = Absent
    /\ CorrelatorIdle /\ NormalizerIdle /\ LocatorIdle /\ DriverIdle

RunRemoveUnwantedNodes ==
    /\ NextStage = "removeUnwantedNodes"
    /\ tree' = RemoveUnwantedNodes(variant, tree)
    /\ visits' = visits \o RemoveUnwantedNodesVisits(variant, tree)
    /\ stripped' = tree'
    /\ stages' = Append(stages, "removeUnwantedNodes")
    /\ UNCHANGED <<variant, specs, specsDiff, pc, wrapped, output, parsed>>
    /\ UNCHANGED <<corrVars, normVars, locVars, drvVars>>

RunWrapOperationsWithDetails ==
    /\ NextStage = "wrapOperationsWithDetails"
    /\ tree' = WrapOperationsWithDetails(variant, tree)
    /\ visits' = visits \o WrapOperationsWithDetailsVisits(variant, tree)
    /\ wrapped' = tree'
    /\ stages' = Append(stages, "wrapOperationsWithDetails")
    /\ UNCHANGED <<variant, specs, specsDiff, pc, stripped, output, parsed>>
    /\ UNCHANGED <<corrVars, normVars, locVars, drvVars>>

RunInsertChangeNotifier ==
    /\ NextStage = "insertChangeNotifier"
    /\ LET r == InsertChangeNotifier(variant, specs, specsDiff, tree)
       IN /\ tree' = r.cs
          /\ visits' = Append(visits, [kind |-> "notify", log |-> r.log])
          /\ pc' = IF r.err THEN "failed" ELSE pc
    /\ stages' = Append(stages, "insertChangeNotifier")
    /\ UNCHANGED <<variant, specs, specsDiff, stripped, wrapped, output, parsed>>
    /\ UNCHANGED <<corrVars, normVars, locVars, drvVars>>

RunIncrementHeadingDepth ==
    /\ NextStage = "incrementHeadingDepth"
    /\ npc = "idle"
    /\ \E failed \in SUBSET HeadingTagIds(tree) :
          tree' = IncrementHeadingDepth(tree, failed)
    /\ stages' = Append(stages, "incrementHeadingDepth")
    /\ UNCHANGED <<variant, specs, specsDiff, pc, stripped, wrapped, output, parsed, visits>>
    /\ UNCHANGED <<corrVars, normVars, locVars, drvVars>>

\* specsDiff.breakingDifferences.length throws when the array is absent
RunInsertHeader ==
    /\ NextStage = "insertHeader"
    /\ IF specsDiff.breakingDifferencesFound /\ IsAbsent(specsDiff.breakingDifferences)
       THEN /\ pc' = "failed"
            /\ tree' = tree
       ELSE /\ pc' = pc
            /\ tree' = InsertHeader(specsDiff, tree)
    /\ stages' = Append(stages, "insertHeader")
    /\ UNCHANGED <<variant, specs, specsDiff, stripped, wrapped, output, parsed, visits>>
    /\ UNCHANGED <<corrVars, normVars, locVars, drvVars>>

\* every transformer has run: the compiler of remark serializes the tree and
\* process() resolves
Stringify ==
    /\ pc = "running"
    /\ Len(stages) = Len(Pipeline(variant))
    /\ output' = Some(tree)
    /\ pc' = "done"
    /\ UNCHANGED <<variant, tree, specs, specsDiff, stages, stripped, wrapped, parsed, visits>>
    /\ UNCHANGED <<corrVars, normVars, locVars, drvVars>>

Next ==
    \/ RunRemoveUnwantedNodes
    \/ RunWrapOperationsWithDetails
    \/ RunInsertChangeNotifier
    \/ RunIncrementHeadingDepth
    \/ RunInsertHeader
    \/ Stringify

Spec == Init /\ [][Next]_vars

\* ------------------------------------- incrementHeadingDepth, promise by promise
MaxTaskBlocks == 2  \* blocks of a document whose html nodes are parsed one by one

\* visit(tree, { type: "heading" }, (node) => node.depth++)
RECURSIVE IncrementDepths(_)
IncrementDepths(cs) ==
    [i \in 1..Len(cs) |->
        LET n == cs[i]
            m == IF n.type = "heading" THEN [n EXCEPT !.depth = @ + 1] ELSE n
        IN [m EXCEPT !.children = IncrementDepths(@)]]

\* visit(tree, { type: "html" }, visitHtml): the positions, in document
\* order, of the nodes visitHtml pushes a promise for
HtmlPositions(cs) ==
    LET f == Flatten(cs)
    IN SelectSeq([i \in 1..Len(f) |-> i], LAMBDA i : f[i].type = "html")

\* the number of nodes of the tree cs
RECURSIVE Size(_)
Size(cs) == IF cs = <<>> THEN 0 ELSE 1 + Size(Head(cs).children) + Size(Tail(cs))

\* Mutant of RewriteValue: the value is left as it was.
KeepValue(v) == v

\* the then() callback: html.toFormattedString() if a tag was renamed
RewriteValue(v) == IF HasHeadingTag(v) THEN RewriteHeadingTags(v) ELSE v

\* (node as any).value = html.toFormattedString(), on the node at position p
\* of the document order of cs
RECURSIVE RewriteAt(_, _)
RewriteAt(cs, p) ==
    IF cs = <<>> THEN <<>>
    ELSE LET n == Head(cs)
             s == 1 + Size(n.children)
         IN IF p = 1 THEN <<[n EXCEPT !.value = RewriteValue(@)]>> \o Tail(cs)
            ELSE IF p <= s
                 THEN <<[n EXCEPT !.children = RewriteAt(@, p - 1)]>> \o Tail(cs)
            ELSE <<n>> \o RewriteAt(Tail(cs), p - s)

\* Mutant of AllSettled: the first settled promise is enough.
AnySettled(ps) == ps = <<>> \/ \E j \in 1..Len(ps) : ps[j] # "pending"

\* Promise.allSettled(promises) has resolved
AllSettled(ps) == \A j \in 1..Len(ps) : ps[j] # "pending"

NormalizerBlockNames == {"op_a", "h2html", "h1", "para", "quote"}

NormalizerDocuments ==
    { Document(bs, 1) :
        bs \in UNION { [1..n -> NormalizerBlockNames] : n \in 0..MaxTaskBlocks } }

NormalizerDiffOutcomes ==
    { d \in DiffOutcomes :
        Truthy(FindMatchingDifference(d.breakingDifferences, Some(PathA))) }

\* process() of the header variant at the moment unified calls
\* incrementHeadingDepth: the three stages before it have run
InitNormalizer ==
    /\ variant = "header"
    /\ parsed \in NormalizerDocuments
    /\ specs = <<BaseSpec, HeadSpec>>
    /\ specsDiff \in NormalizerDiffOutcomes
    /\ stripped = RemoveUnwantedNodes(variant, parsed)
    /\ wrapped = WrapOperationsWithDetails(variant, stripped)
    /\ LET r == InsertChangeNotifier(variant, specs, specsDiff, wrapped)
       IN /\ ~r.err
          /\ tree = r.cs
          /\ visits = RemoveUnwantedNodesVisits(variant, parsed)
                      \o WrapOperationsWithDetailsVisits(variant, stripped)
                      \o << [kind |-> "notify", log |-> r.log] >>
    /\ stages = << "removeUnwantedNodes", "wrapOperationsWithDetails",
                   "insertChangeNotifier" >>
    /\ pc = "running"
    /\ output = Absent
    /\ NormalizerIdle /\ CorrelatorIdle /\ LocatorIdle /\ DriverIdle

\* the synchronous part: every heading one level deeper, one promise pushed
\* for every html node, then the await
StartIncrementHeadingDepth ==
    /\ NextStage = "incrementHeadingDepth"
    /\ npc = "idle"
    /\ received' = tree
    /\ tree' = IncrementDepths(tree)
    /\ promises' = [j \in 1..Len(HtmlPositions(tree)) |-> "pending"]
    /\ npc' = "awaiting"
    /\ UNCHANGED <<variant, specs, specsDiff, pc, stages, stripped, wrapped, output,
                   parsed, visits>>
    /\ UNCHANGED <<corrVars, locVars, drvVars>>

\* parseStringToAst resolved and the then() callback ran: the value of the
\* node is replaced if a tag was renamed
TaskFulfils(j) ==
    /\ npc = "awaiting"
    /\ promises[j] = "pending"
    /\ tree' = RewriteAt(tree, HtmlPositions(tree)[j])
    /\ promises' = [promises EXCEPT ![j] = "done"]
    /\ UNCHANGED <<variant, specs, specsDiff, pc, stages, stripped, wrapped, output,
                   parsed, visits, npc, received>>
    /\ UNCHANGED <<corrVars, locVars, drvVars>>

\* parseStringToAst rejected, or the callback threw before the assignment:
\* catch(() => {}) swallows the error
TaskFails(j) ==
    /\ npc = "awaiting"
    /\ promises[j] = "pending"
    /\ promises' = [promises EXCEPT ![j] = "failed"]
    /\ UNCHANGED <<pipeVars, npc, received, corrVars, locVars, drvVars>>

\* await Promise.allSettled(promises) returns and the transformer resolves
FinishIncrementHeadingDepth ==
    /\ npc = "awaiting"
    /\ AllSettled(promises)
    /\ npc' = "settled"
    /\ stages' = Append(stages, "incrementHeadingDepth")
    /\ UNCHANGED <<variant, tree, specs, specsDiff, pc, stripped, wrapped, output,
                   parsed, visits, promises, received>>
    /\ UNCHANGED <<corrVars, locVars, drvVars>>

NextNormalizer ==
    \/ StartIncrementHeadingDepth
    \/ \E j \in 1..Len(promises) : TaskFulfils(j)
    \/ \E j \in 1..Len(promises) : TaskFails(j)
    \/ FinishIncrementHeadingDepth
    \/ RunInsertHeader
    \/ Stringify

SpecNormalizer == InitNormalizer /\ [][NextNormalizer]_vars

\* ------------------------------------------- one call of the Diff Correlator
Chars == {"a", "b"}

\* the strings of at most n characters
Strings(n) == UNION { [1..k -> Chars] : k \in 0..n }

DetailLists == {<<>>} \cup { <<[location |-> l]>> : l \in Strings(MaxLocLen) }

DiffResults ==
    { [sourceSpecEntityDetails |-> x, destinationSpecEntityDetails |-> y] :
      x \in DetailLists, y \in DetailLists }

\* absent, empty, one DiffResult, or one DiffResult after one without entries
\* or after one whose only entry is at location b
DiffCollections ==
    {Absent, Some(<<>>)}
    \cup { Some(<<d>>) : d \in DiffResults }
    \cup { Some(<<DiffSource(<<>>), d>>) : d \in DiffResults }
    \cup { Some(<<DiffDestination(<<"b">>), d>>) : d \in DiffResults }

InitCorrelator ==
    /\ cDiffs \in DiffCollections
    /\ cLocation \in Strings(MaxLocLen) \ {<<>>}
    /\ cResult = Absent
    /\ cpc = "call"
    /\ PipelineIdle /\ NormalizerIdle /\ LocatorIdle /\ DriverIdle

CallFindMatchingDifference ==
    /\ cpc = "call"
    /\ cResult' = FindMatchingDifference(cDiffs, Some(cLocation))
    /\ cpc' = "returned"
    /\ UNCHANGED <<cDiffs, cLocation, pipeVars, normVars, locVars, drvVars>>

NextCorrelator == CallFindMatchingDifference

SpecCorrelator == InitCorrelator /\ [][NextCorrelator]_vars

\* ------------------------------------------------------ OpenApiReview.run()
MaxSpecs == 2       \* changed specs of the pull request

\* the calls processSpec awaits, in order
ProcessSteps ==
    << "getFileContent(base)", "getFileContent(head)", "diffSpecs", "convert",
       "processDocs", "createPullRequestComment" >>

\* Mutant of ShouldFail: the option has to be set for a failure.
ShouldFailWhenSet(ctx) == ctx.failOnBreakingChanges = "true"

\* failOnBreakingChanges: the option is true unless it is set to false
ShouldFail(ctx) == ctx.failOnBreakingChanges # "false"

\* an argument of setFailed: its message and the spec it is about
Failure(kind, s) == [kind |-> kind, spec |-> s]

\* processSpec(spec) up to its first await
StartProcessSpec ==
    [awaiting |-> 1, state |-> "pending", breaking |-> FALSE,
     calls |-> <<ProcessSteps[1]>>]

InitDriver ==
    /\ context \in [pullRequest : BOOLEAN,
                     failOnBreakingChanges : {"undefined", "true", "false"}]
    /\ rpc = "start"
    /\ procs = <<>>
    /\ comments = <<>>
    /\ failures = <<>>
    /\ rejected = 0
    /\ PipelineIdle /\ CorrelatorIdle /\ NormalizerIdle /\ LocatorIdle

\* Mutant of RunStart: the context is not tested.
RunStartUnchecked ==
    /\ rpc = "start"
    /\ rpc' = "getChangedSpecs"
    /\ UNCHANGED <<context, procs, comments, failures, rejected>>
    /\ UNCHANGED <<pipeVars, corrVars, normVars, locVars>>

\* run() up to its first await: the context is tested, then the changed
\* specs are looked up
RunStart ==
    /\ rpc = "start"
    /\ IF context.pullRequest
       THEN /\ rpc' = "getChangedSpecs"
            /\ failures' = failures
       ELSE /\ rpc' = "returned"
            /\ failures' = Append(failures, Failure("Missing PR context", 0))
    /\ UNCHANGED <<context, procs, comments, rejected>>
    /\ UNCHANGED <<pipeVars, corrVars, normVars, locVars>>

\* the lookup returns n changed specs: changedSpecs.map calls processSpec for
\* each, and run() awaits Promise.all
GetChangedSpecsReturns ==
    /\ rpc = "getChangedSpecs"
    /\ \E n \in 0..MaxSpecs : procs' = [s \in 1..n |-> StartProcessSpec]
    /\ rpc' = "awaiting"
    /\ UNCHANGED <<context, comments, failures, rejected>>
    /\ UNCHANGED <<pipeVars, corrVars, normVars, locVars>>

\* the lookup rejects: the catch of run() reports it
GetChangedSpecsFails ==
    /\ rpc = "getChangedSpecs"
    /\ failures' = Append(failures, Failure("getChangedSpecs", 0))
    /\ rpc' = "returned"
    /\ UNCHANGED <<context, procs, comments, rejected>>
    /\ UNCHANGED <<pipeVars, corrVars, normVars, locVars>>

\* Mutant of CallReturns: a fail-fast join, no processSpec goes on once one
\* of them has rejected.
CallReturnsUnlessRejected(s) ==
    /\ s \in DOMAIN procs
    /\ procs[s].state = "pending"
    /\ rejected = 0
    /\ LET k == procs[s].awaiting
       IN IF k = 6
          THEN /\ comments' = Append(comments, s)
               /\ procs' = [procs EXCEPT ![s].state = "resolved"]
               /\ failures' = failures
          ELSE /\ comments' = comments
               /\ \E found \in (IF k = 3 THEN BOOLEAN ELSE {procs[s].breaking}) :
                     /\ procs' = [procs EXCEPT ![s].awaiting = k + 1,
                                               ![s].breaking = found,
                                               ![s].calls = Append(@, ProcessSteps[k + 1])]
                     /\ failures' = IF k = 3 /\ found /\ ShouldFail(context)
                                    THEN Append(failures,
                                                Failure("Breaking changes were found", s))
                                    ELSE failures
    /\ UNCHANGED <<context, rpc, rejected>>
    /\ UNCHANGED <<pipeVars, corrVars, normVars, locVars>>

\* the call processSpec(s) awaits resolves and processSpec runs on to its
\* next await: after diffSpecs, failOnBreakingChanges runs; after
\* createPullRequestComment, processSpec resolves
CallReturns(s) ==
    /\ s \in DOMAIN procs
    /\ procs[s].state = "pending"
    /\ LET k == procs[s].awaiting
       IN IF k = 6
          THEN /\ comments' = Append(comments, s)
               /\ procs' = [procs EXCEPT ![s].state = "resolved"]
               /\ failures' = failures
          ELSE /\ comments' = comments
               /\ \E found \in (IF k = 3 THEN BOOLEAN ELSE {procs[s].breaking}) :
                     /\ procs' = [procs EXCEPT ![s].awaiting = k + 1,
                                               ![s].breaking = found,
                                               ![s].calls = Append(@, ProcessSteps[k + 1])]
                     /\ failures' = IF k = 3 /\ found /\ ShouldFail(context)
                                    THEN Append(failures,
                                                Failure("Breaking changes were found", s))
                                    ELSE failures
    /\ UNCHANGED <<context, rpc, rejected>>
    /\ UNCHANGED <<pipeVars, corrVars, normVars, locVars>>

\* the call processSpec(s) awaits rejects, or the code after it throws:
\* processSpec(s) rejects, and Promise.all rejects with the first rejection
CallFails(s) ==
    /\ s \in DOMAIN procs
    /\ procs[s].state = "pending"
    /\ procs' = [procs EXCEPT ![s].state = "rejected"]
    /\ rejected' = IF rejected = 0 THEN s ELSE rejected
    /\ UNCHANGED <<context, rpc, comments, failures>>
    /\ UNCHANGED <<pipeVars, corrVars, normVars, locVars>>

\* Mutant of RunCatch: the error is dropped.
RunCatchSilent ==
    /\ rpc = "awaiting"
    /\ rejected # 0
    /\ rpc' = "returned"
    /\ UNCHANGED <<context, procs, comments, failures, rejected>>
    /\ UNCHANGED <<pipeVars, corrVars, normVars, locVars>>

\* catch (error) { this.ioManager.setFailed(error) }
RunCatch ==
    /\ rpc = "awaiting"
    /\ rejected # 0
    /\ failures' = Append(failures, Failure("error", rejected))
    /\ rpc' = "returned"
    /\ UNCHANGED <<context, procs, comments, rejected>>
    /\ UNCHANGED <<pipeVars, corrVars, normVars, locVars>>

\* Promise.all resolves once every processSpec has resolved
RunResolves ==
    /\ rpc = "awaiting"
    /\ \A s \in DOMAIN procs : procs[s].state = "resolved"
    /\ rpc' = "returned"
    /\ UNCHANGED <<context, procs, comments, failures, rejected>>
    /\ UNCHANGED <<pipeVars, corrVars, normVars, locVars>>

NextDriver ==
    \/ RunStart
    \/ GetChangedSpecsReturns
    \/ GetChangedSpecsFails
    \/ \E s \in 1..MaxSpecs : CallReturns(s)
    \/ \E s \in 1..MaxSpecs : CallFails(s)
    \/ RunCatch
    \/ RunResolves

SpecDriver == InitDriver /\ [][NextDriver]_vars

\* ----------------------------------------- one call of the Operation Locator
MaxOps == 2         \* operations of a spec document

\* The keys of paths begin with a slash and the keys of a path item are
\* method names: Object.entries lists such keys in insertion order.
Routes == { <<"/p">>, <<"/q">> }
Methods == { <<"get">>, <<"post">> }
OperationIds == {"a", "b"}

\* the sequences of at most n elements of S, no element twice
DistinctSeqs(S, n) ==
    { q \in UNION { [1..k -> S] : k \in 0..n } :
        \A i, j \in 1..Len(q) : q[i] = q[j] => i = j }

\* the operations of a path item: at most n, each method once
OperationLists(n) ==
    UNION { { [i \in 1..Len(ms) |-> [method |-> ms[i], operationId |-> ids[i]]] :
                ids \in [1..Len(ms) -> OperationIds] } :
            ms \in DistinctSeqs(Methods, n) }

RECURSIVE SumLen(_)
SumLen(q) == IF q = <<>> THEN 0 ELSE Len(Head(q)) + SumLen(Tail(q))

\* the spec documents of at most MaxOps operations over the routes
SpecDocuments ==
    UNION { { [paths |-> [i \in 1..Len(rs) |-> [route |-> rs[i], operations |-> os[i]]]] :
                os \in { q \in [1..Len(rs) -> OperationLists(MaxOps)] :
                            SumLen(q) <= MaxOps } } :
            rs \in DistinctSeqs(Routes, Cardinality(Routes)) }

\* getSpecDocs passes the base and the head document, in this order
InitLocator ==
    /\ lSpecs \in [1..2 -> SpecDocuments]
    /\ lId \in {"a", "z"}
    /\ lResult = Absent
    /\ lpc = "call"
    /\ PipelineIdle /\ CorrelatorIdle /\ NormalizerIdle /\ DriverIdle

CallGetOperationLocation ==
    /\ lpc = "call"
    /\ lResult' = GetOperationLocation(lSpecs, lId)
    /\ lpc' = "returned"
    /\ UNCHANGED <<lSpecs, lId, pipeVars, corrVars, normVars, drvVars>>

NextLocator == CallGetOperationLocation

SpecLocator == InitLocator /\ [][NextLocator]_vars

\* ===================================================================== claims
\* every list of children of the tree cs: the root's and every node's
RECURSIVE Lists(_)
Lists(cs) == {cs} \cup UNION { Lists(cs[i].children) : i \in 1..Len(cs) }

\* the tree cs without the nodes the stages inserted
RECURSIVE Original(_)
Original(cs) ==
    LET kept == SelectSeq(cs, LAMBDA n : n.id # 0)
    IN [i \in 1..Len(kept) |-> [kept[i] EXCEPT !.children = Original(@)]]

IsPrefix(s, t) == Len(s) <= Len(t) /\ \A i \in 1..Len(s) : s[i] = t[i]

LastStage == IF stages = <<>> THEN "none" ELSE stages[Len(stages)]

IsOpenOf(n, h)   == n.type = "html" /\ n.value = DetailsOpen /\ n.id = 0 /\ n.owner = h
IsCloseOf(n, h)  == n.type = "html" /\ n.value = DetailsClose /\ n.id = 0 /\ n.owner = h
IsMarkerOf(n, h) == n.type = "paragraph" /\ n.id = 0 /\ n.owner = h
IsInserted(n)    == n.id = 0

\* the message of a notifier paragraph
MessageOf(n) == n.children[2].children[1].value

\* the positions of cs whose node satisfies the test
OpenAt(cs, h)   == { k \in 1..Len(cs) : IsOpenOf(cs[k], h) }
CloseAt(cs, h)  == { k \in 1..Len(cs) : IsCloseOf(cs[k], h) }
MarkerAt(cs, h) == { k \in 1..Len(cs) : IsMarkerOf(cs[k], h) }

IsHeading2Node(n) == n.type = "heading" /\ n.depth = 2

\* --------------------------------------------------------------------- C1
\* C1 as the spec states it: the stages run in the order stripper, notifier
\* inserter, collapser, then depth normalizer and header builder.
C1_SpecOrder ==
    IsPrefix(stages, << "removeUnwantedNodes", "insertChangeNotifier",
                        "wrapOperationsWithDetails", "incrementHeadingDepth",
                        "insertHeader" >>)

\* C1 amended: the stages run in the order stripper, collapser, notifier
\* inserter, then (header variant only) depth normalizer and header builder;
\* each stage works on the tree the stage before it left complete, and
\* process() resolves only after the last one.
C1_CodeOrder ==
    /\ IsPrefix(stages, << "removeUnwantedNodes", "wrapOperationsWithDetails",
                           "insertChangeNotifier", "incrementHeadingDepth",
                           "insertHeader" >>)
    /\ Len(stages) <= (IF variant = "header" THEN 5 ELSE 3)
    /\ LastStage = "removeUnwantedNodes" => tree = stripped
    /\ LastStage = "wrapOperationsWithDetails" =>
          /\ tree = wrapped
          /\ Original(tree) = stripped
    /\ pc = "done" => Len(stages) = (IF variant = "header" THEN 5 ELSE 3)

C1_Witness ==
    /\ pc = "done" /\ variant = "header"
    /\ \E i \in 1..Len(tree) : IsMarkerOf(tree[i], 11)
    /\ \E i \in 1..Len(tree) : IsOpenOf(tree[i], 11)

\* --------------------------------------------------------------------- C2
\* C2 as the spec states it: in the output of the pipeline every change
\* marker paragraph lies between the opening and the closing collapsible
\* marker of its heading's section.
C2_MarkerInsideSection ==
    pc = "done" =>
        \A cs \in Lists(tree) : \A k \in 1..Len(cs) :
            IsMarkerOf(cs[k], cs[k].owner) /\ cs[k].owner # 0 =>
                /\ \E i \in OpenAt(cs, cs[k].owner) : i < k
                /\ \E j \in CloseAt(cs, cs[k].owner) : k < j

\* C2 amended: in the output of the pipeline every change marker paragraph
\* is the next sibling of its heading and lies before the opening marker of
\* the heading's section, outside the collapsed section: the order is
\* heading, marker, operation-id node, opening marker, ..., closing marker.
C2_MarkerBeforeSection ==
    pc = "done" =>
        \A cs \in Lists(tree) : \A k \in 1..Len(cs) :
            IsMarkerOf(cs[k], cs[k].owner) /\ cs[k].owner # 0 =>
                /\ k > 1 /\ cs[k - 1].type = "heading" /\ cs[k - 1].id = cs[k].owner
                /\ OpenAt(cs, cs[k].owner) = {k + 2}
                /\ \E j \in CloseAt(cs, cs[k].owner) : k + 2 < j

C2_Witness ==
    /\ pc = "done"
    /\ \E k \in 1..Len(tree) : IsMarkerOf(tree[k], 21)
    /\ \E cs \in Lists(tree) : \E k \in 1..Len(cs) :
          IsMarkerOf(cs[k], 12) /\ cs # tree

\* --------------------------------------------------------------------- C3
\* the second-level headings wrapOperationsWithDetails recognises: heading
\* nodes of depth 2 and, in the header variant, html nodes with an h2 line
Recognised(v, n) ==
    \/ IsHeading2Node(n)
    \/ v = "header" /\ n.type = "html" /\ HtmlHeadingDepth(n.value) = 2

\* C3: after the Section Collapser the tree holds exactly one opening and one
\* closing marker per second-level heading of the tree it received, the
\* three counts are equal, and nothing else was inserted or changed.
C3_OneMarkerPairPerHeading ==
    LastStage = "wrapOperationsWithDetails" =>
        LET before == Flatten(stripped)
            after == Flatten(tree)
            headings == { i \in 1..Len(before) : Recognised(variant, before[i]) }
            opens == { i \in 1..Len(after) :
                          after[i].type = "html" /\ after[i].value = DetailsOpen }
            closes == { i \in 1..Len(after) :
                          after[i].type = "html" /\ after[i].value = DetailsClose }
        IN /\ Cardinality(opens) = Cardinality(headings)
           /\ Cardinality(closes) = Cardinality(headings)
           /\ \A i \in headings :
                 /\ Cardinality({ j \in opens : IsOpenOf(after[j], before[i].id) }) = 1
                 /\ Cardinality({ j \in closes : IsCloseOf(after[j], before[i].id) }) = 1
           /\ Len(after) = Len(before) + 2 * Cardinality(headings)
           /\ Original(tree) = stripped

C3_Witness ==
    /\ LastStage = "wrapOperationsWithDetails"
    /\ variant = "header"
    /\ \E i \in 2..Len(tree) : IsOpenOf(tree[i], 11) /\ tree[i - 1].type = "html"
    /\ \E i \in 2..Len(tree) : IsOpenOf(tree[i], 31) /\ i = Len(tree) - 1

\* --------------------------------------------------------------------- C4
\* the position in cs of the original node with id i
PosOf(cs, i) == CHOOSE k \in 1..Len(cs) : cs[k].id = i

\* C4 as the spec states it: every non-heading node that lay between two
\* consecutive second-level headings before the Section Collapser, the
\* operation-id sibling included, lies between the opening and the closing
\* marker of the first of the two headings after it.
C4_SectionInsideMarkers ==
    LastStage = "wrapOperationsWithDetails" =>
        \A cs \in Lists(tree) :
            LET o == SelectSeq(cs, LAMBDA n : n.id # 0)
            IN \A i \in 1..Len(o) : \A j \in (i + 1)..Len(o) :
                  /\ Recognised(variant, o[i]) /\ Recognised(variant, o[j])
                  /\ \A m \in (i + 1)..(j - 1) : ~Recognised(variant, o[m])
                  => \A p \in (i + 1)..(j - 1) :
                        ~IsHeading(0, FALSE, o[p]) =>
                            /\ \E a \in OpenAt(cs, o[i].id) : a < PosOf(cs, o[p].id)
                            /\ \E b \in CloseAt(cs, o[i].id) : PosOf(cs, o[p].id) < b

\* the position in o of the first heading of depth 2 or shallower, as the
\* variant recognises it, at or after position p; Len(o) + 1 when none is
FirstBoundary(v, o, p) ==
    IF \E q \in p..Len(o) : IsBoundary(v, o[q])
    THEN CHOOSE q \in p..Len(o) :
            IsBoundary(v, o[q]) /\ \A r \in p..(q - 1) : ~IsBoundary(v, o[r])
    ELSE Len(o) + 1

\* C4 amended: for every second-level heading node that does not directly
\* follow another second-level heading node, the sibling that directly
\* follows it (the operation-id node) stays before the opening marker, and
\* every node from the second sibling after the heading up to, and not
\* including, the next heading of depth 2 or shallower (the next depth-2
\* heading node in the basic variant) lies between the heading's opening and
\* closing marker; that next heading lies after the closing marker.
C4_BodyInsideMarkers ==
    LastStage = "wrapOperationsWithDetails" =>
        \A cs \in Lists(tree) :
            LET o == SelectSeq(cs, LAMBDA n : n.id # 0)
            IN \A i \in 1..Len(o) :
                  IsHeading2Node(o[i]) /\ ~(i > 1 /\ IsHeading2Node(o[i - 1])) =>
                      LET b == FirstBoundary(variant, o, i + 2)
                          open == CHOOSE k \in OpenAt(cs, o[i].id) : TRUE
                          close == CHOOSE k \in CloseAt(cs, o[i].id) : TRUE
                      IN /\ OpenAt(cs, o[i].id) # {} /\ CloseAt(cs, o[i].id) # {}
                         /\ open < close
                         /\ i + 1 <= Len(o) => PosOf(cs, o[i + 1].id) < open
                         /\ \A p \in (i + 2)..(b - 1) :
                               open < PosOf(cs, o[p].id) /\ PosOf(cs, o[p].id) < close
                         /\ b <= Len(o) => close < PosOf(cs, o[b].id)

C4_Witness ==
    /\ LastStage = "wrapOperationsWithDetails"
    /\ Len(tree) = 6
    /\ IsHeading2Node(tree[1]) /\ tree[2].id = 13 /\ IsOpenOf(tree[3], 11)
    /\ tree[4].id = 21 /\ tree[4].type = "paragraph" /\ IsCloseOf(tree[5], 11)
    /\ tree[6].type = "heading" /\ tree[6].depth = 1

\* --------------------------------------------------------------------- C5
\* p is a string prefix of s
IsStringPrefix(p, s) == Len(p) <= Len(s) /\ SubSeq(s, 1, Len(p)) = p

\* some entry of the collection, on the source or the destination side, is
\* at a location that has the path as a string prefix
Correlates(diffs, path) ==
    /\ ~IsAbsent(diffs)
    /\ \E i \in 1..Len(Get(diffs)) :
          LET d == Get(diffs)[i]
          IN \/ \E j \in 1..Len(d.sourceSpecEntityDetails) :
                   IsStringPrefix(path, d.sourceSpecEntityDetails[j].location)
             \/ \E j \in 1..Len(d.destinationSpecEntityDetails) :
                   IsStringPrefix(path, d.destinationSpecEntityDetails[j].location)

\* C5: findMatchingDifference returns true exactly when some DiffResult of
\* the collection has a source-side or destination-side entry whose location
\* has the operation's path as a string prefix; it returns undefined for an
\* absent collection and false for an empty one.
C5_PrefixCorrelation ==
    cpc = "returned" =>
        /\ cResult = Some(TRUE) <=> Correlates(cDiffs, cLocation)
        /\ IsAbsent(cDiffs) => cResult = Absent
        /\ cDiffs = Some(<<>>) => cResult = Some(FALSE)
        /\ ~Correlates(cDiffs, cLocation) => ~Truthy(cResult)

C5_Witness ==
    /\ cpc = "returned"
    /\ cResult = Some(TRUE)
    /\ Len(Get(cDiffs)) = 2
    /\ Get(cDiffs)[1] = DiffDestination(<<"b">>)
    /\ cLocation = <<"a">>
    /\ Get(cDiffs)[2] = DiffDestination(<<"a", "b">>)

\* --------------------------------------------------------------------- C6
\* C6: while breakingDifferencesFound is false the tree holds no BREAKING
\* CHANGES text, after an operation heading or in the header, whatever
\* breakingDifferences holds.
C6_NoBreakingMarker ==
    ~specsDiff.breakingDifferencesFound =>
        LET f == Flatten(tree)
        IN \A i \in 1..Len(f) : f[i].value # BreakingMessage

C6_Witness ==
    /\ pc = "done" /\ variant = "header"
    /\ ~specsDiff.breakingDifferencesFound
    /\ Correlates(specsDiff.breakingDifferences, PathA)
    /\ \E k \in 1..Len(tree) :
          IsMarkerOf(tree[k], 11) /\ MessageOf(tree[k]) = ChangesMessage

\* --------------------------------------------------------------------- C7
\* the operation location insertChangeNotifier resolved for the heading at
\* position k of cs, read from the operation-id node that follows the heading
\* (and the heading's marker, when it has one)
LocationOfHeading(cs, k) ==
    LET x == IF IsMarkerOf(cs[k + 1], cs[k].id) THEN cs[k + 2] ELSE cs[k + 1]
    IN GetOperationLocation(specs, OpIdMatch(x.children[1].value))

NotifierDone == LastStage = "insertChangeNotifier" /\ pc = "running"

\* C7: after the Change Notifier Inserter, every second-level heading whose
\* operation resolves to a path has at most one marker: BREAKING CHANGES if
\* breaking differences are found and one correlates with the path; else
\* CHANGES if a non-breaking or an unclassified one correlates; else none.
C7_MarkerByPriority ==
    NotifierDone =>
        \A cs \in Lists(tree) : \A k \in 1..Len(cs) :
            IsHeading2Node(cs[k]) /\ ~IsAbsent(LocationOfHeading(cs, k)) =>
                LET path == Get(LocationOfHeading(cs, k))
                    breaking == /\ specsDiff.breakingDifferencesFound
                                /\ Correlates(specsDiff.breakingDifferences, path)
                    changes == \/ Correlates(specsDiff.nonBreakingDifferences, path)
                               \/ Correlates(specsDiff.unclassifiedDifferences, path)
                    markers == MarkerAt(cs, cs[k].id)
                IN /\ Cardinality(markers) <= 1
                   /\ breaking =>
                         markers = {k + 1} /\ MessageOf(cs[k + 1]) = BreakingMessage
                   /\ ~breaking /\ changes =>
                         markers = {k + 1} /\ MessageOf(cs[k + 1]) = ChangesMessage
                   /\ ~breaking /\ ~changes => markers = {}

C7_Witness ==
    /\ NotifierDone
    /\ specsDiff.breakingDifferencesFound
    /\ Correlates(specsDiff.breakingDifferences, PathA)
    /\ Correlates(specsDiff.nonBreakingDifferences, PathA)
    /\ \E k \in 1..Len(tree) :
          IsMarkerOf(tree[k], 11) /\ MessageOf(tree[k]) = BreakingMessage

\* --------------------------------------------------------------------- C8
\* C8: the Change Notifier Inserter raises no error when the node after a
\* second-level heading does not hold the operation-identifier pattern.
C8_NoErrorWithoutPattern ==
    ~(LastStage = "insertChangeNotifier" /\ pc = "failed")

\* --------------------------------------------------------------------- C9
\* C9: a second-level heading whose operation identifier no spec document
\* carries gets no marker, whatever the diff outcome contains.
C9_NoMarkerWhenUnresolved ==
    NotifierDone =>
        \A cs \in Lists(tree) : \A k \in 1..Len(cs) :
            IsHeading2Node(cs[k]) /\ IsAbsent(LocationOfHeading(cs, k)) =>
                MarkerAt(cs, cs[k].id) = {}

\* -------------------------------------------------------------------- C10
\* C10: running the Boilerplate Stripper on its own result changes nothing.
C10_StripperIdempotent ==
    LastStage = "removeUnwantedNodes" => RemoveUnwantedNodes(variant, tree) = tree

\* -------------------------------------------------------------------- C11
\* the value of the node the j-th promise was pushed for, in the tree cs
ValueOfTask(cs, j) == Flatten(cs)[HtmlPositions(received)[j]].value

NormalizerStarted == npc # "idle" /\ LastStage # "insertHeader"

\* C11: incrementHeadingDepth pushes one promise for every html node, all of
\* them before any settles; the stage completes, and insertHeader runs, only
\* once every promise has settled; in every intermediate and final state a
\* node whose task failed or is pending has the value it had, a node whose
\* task fulfilled has the rewritten value whatever happened to the other
\* tasks, and the pipeline has not failed.
C11_TasksJoinedAndIsolated ==
    /\ npc # "idle" =>
          /\ Len(promises) = Len(SelectSeq(Flatten(received), LAMBDA n : n.type = "html"))
          /\ pc # "failed"
    /\ npc = "idle" => promises = <<>> /\ Len(stages) < 4
    /\ Len(stages) >= 4 =>
          npc = "settled" /\ \A j \in 1..Len(promises) : promises[j] # "pending"
    /\ NormalizerStarted =>
          /\ Len(Flatten(tree)) = Len(Flatten(received))
          /\ \A j \in 1..Len(promises) :
                /\ promises[j] \in {"pending", "failed"} =>
                      ValueOfTask(tree, j) = ValueOfTask(received, j)
                /\ promises[j] = "done" =>
                      ValueOfTask(tree, j) =
                          (IF HtmlHeadingDepth(ValueOfTask(received, j)) = 2
                           THEN H3Rewritten ELSE ValueOfTask(received, j))

\* the first task failed, the second is still pending and the third, a
\* heading tag, is rewritten
C11_Witness ==
    /\ npc = "awaiting"
    /\ Len(promises) >= 4
    /\ promises[1] = "failed" /\ promises[2] = "pending" /\ promises[4] = "done"
    /\ ValueOfTask(received, 4) = H2Html
    /\ ValueOfTask(tree, 4) = H3Rewritten

\* -------------------------------------------------------------------- C12
NormalizerDone == LastStage = "incrementHeadingDepth"

\* C12: after incrementHeadingDepth every heading node that had depth d,
\* 1 <= d <= 5, has depth d + 1, and every html node in which the parse of
\* its task found a heading tag h<n> holds h<n+1> instead.
C12_DepthsIncremented ==
    NormalizerDone =>
        LET f == Flatten(received)
            g == Flatten(tree)
        IN /\ Len(g) = Len(f)
           /\ \A p \in 1..Len(f) :
                 /\ g[p].type = f[p].type /\ g[p].id = f[p].id
                 /\ f[p].type = "heading" /\ f[p].depth \in 1..5 =>
                       g[p].depth = f[p].depth + 1
                 /\ f[p].type # "heading" => g[p].depth = f[p].depth
           /\ \A j \in 1..Len(promises) :
                 promises[j] = "done" /\ HtmlHeadingDepth(ValueOfTask(received, j)) = 2 =>
                     ValueOfTask(tree, j) = H3Rewritten

C12_Witness ==
    /\ NormalizerDone
    /\ \E p \in 1..Len(tree) :
          tree[p].type = "heading" /\ tree[p].depth = 2 /\ received[p].depth = 1
    /\ \E p \in 1..Len(tree) : tree[p].value = H3Rewritten /\ received[p].value = H2Html

\* -------------------------------------------------------------------- C13
HeaderDone == LastStage = "insertHeader"

\* the summary table of the tree cs: its rows after the title row, each as
\* the name and the count it shows
SummaryRows(cs) ==
    LET table == cs[CHOOSE p \in 1..Len(cs) : cs[p].type = "table"]
    IN [i \in 1..(Len(table.children) - 1) |->
           LET row == table.children[i + 1]
           IN [name |-> row.children[1].children[1].children[1].value,
               count |-> row.children[2].children[1].value]]

\* C13: insertHeader raises no error, and its table shows Breaking,
\* Non-breaking and Unclassified, in this order, each with the length of the
\* corresponding array of the DiffOutcome, 0 when the array is absent.
C13_CountsOrZero ==
    HeaderDone =>
        /\ pc # "failed"
        /\ SummaryRows(tree) =
              << [name |-> "Breaking",
                  count |-> ToString(Count(specsDiff.breakingDifferences))],
                 [name |-> "Non-breaking",
                  count |-> ToString(Count(specsDiff.nonBreakingDifferences))],
                 [name |-> "Unclassified",
                  count |-> ToString(Count(specsDiff.unclassifiedDifferences))] >>

\* -------------------------------------------------------------------- C14
\* the kind of each top-level node of a header
HeaderShape(found) ==
    << "heading1", "blockquote", "heading2", "blockquote" >>
    \o (IF found THEN << "paragraph" >> ELSE <<>>)
    \o << "table", "html", "code", "html", "heading2", "blockquote" >>

ShapeOf(n) ==
    IF n.type = "heading" THEN (IF n.depth = 1 THEN "heading1" ELSE "heading2")
    ELSE n.type

\* C14: the step of insertHeader that does not throw puts, before every node
\* of the tree it received and in this order, a level-1 heading, the spec
\* path blockquote, a level-2 heading, a credit blockquote, the BREAKING
\* CHANGES paragraph exactly when breakingDifferencesFound is true, the
\* table, the collapsible block with the serialized diff (opening html node,
\* code node, closing html node), a level-2 heading and a credit blockquote;
\* the tree it received follows unchanged.
C14_HeaderPrepended ==
    [][ (LastStage' = "insertHeader" /\ LastStage # "insertHeader" /\ pc' = "running") =>
            LET shape == HeaderShape(specsDiff.breakingDifferencesFound)
                n == Len(shape)
            IN /\ Len(tree') = n + Len(tree)
               /\ SubSeq(tree', n + 1, Len(tree')) = tree
               /\ \A p \in 1..n : ShapeOf(tree'[p]) = shape[p] /\ tree'[p].id = 0
               /\ FindTextValue(tree'[1]) = Some("OpenAPI Review")
               /\ FindTextValue(tree'[2]) = Some("Spec: specPath")
               /\ FindTextValue(tree'[3]) = Some("OpenAPI Diff")
               /\ tree'[n - 4].value = "<details>\n<summary>Diff</summary>"
               /\ tree'[n - 2].value = DetailsClose
               /\ FindTextValue(tree'[n - 1]) = Some("OpenAPI Docs")
               /\ specsDiff.breakingDifferencesFound =>
                     MessageOf(tree'[5]) = BreakingMessage
               /\ n = (IF specsDiff.breakingDifferencesFound THEN 11 ELSE 10) ]_vars

C14_Witness ==
    /\ HeaderDone /\ pc = "running"
    /\ specsDiff.breakingDifferencesFound
    /\ Len(tree) = 14
    /\ tree[5].type = "paragraph" /\ MessageOf(tree[5]) = BreakingMessage
    /\ tree[6].type = "table"
    /\ tree[12].id = 11

IsOperationIdNode(n) ==
    /\ n.id # 0 /\ IsParent(n) /\ Len(n.children) > 0
    /\ HasValue(n.children[1]) /\ OpIdMatch(n.children[1].value) # NoMatch

\* C16 as the spec states it: after the Change Notifier Inserter every
\* marker paragraph directly follows the operation-id sibling of its
\* heading: the order is heading, operation-id node, marker.
C16_MarkerAfterOperationId ==
    NotifierDone =>
        \A cs \in Lists(tree) : \A k \in 1..Len(cs) :
            IsMarkerOf(cs[k], cs[k].owner) /\ cs[k].owner # 0 =>
                /\ k > 2
                /\ IsOperationIdNode(cs[k - 1])
                /\ cs[k - 2].type = "heading" /\ cs[k - 2].id = cs[k].owner

\* C16 amended: after the Change Notifier Inserter every marker paragraph
\* directly follows its heading and directly precedes the operation-id
\* sibling: the order is heading, marker, operation-id node.
C16_MarkerAfterHeading ==
    NotifierDone =>
        \A cs \in Lists(tree) : \A k \in 1..Len(cs) :
            IsMarkerOf(cs[k], cs[k].owner) /\ cs[k].owner # 0 =>
                /\ k > 1 /\ k < Len(cs)
                /\ IsHeading2Node(cs[k - 1]) /\ cs[k - 1].id = cs[k].owner
                /\ IsOperationIdNode(cs[k + 1])

C16_Witness ==
    /\ NotifierDone
    /\ Len(tree) >= 3
    /\ IsHeading2Node(tree[1]) /\ IsMarkerOf(tree[2], tree[1].id)
    /\ IsOperationIdNode(tree[3])
    /\ MessageOf(tree[2]) = ChangesMessage

\* -------------------------------------------------------------------- C17
\* an operation heading of the output: a heading of the parsed document at
\* the depth the variant leaves second-level headings at
IsOperationHeading(n) ==
    /\ n.type = "heading" /\ n.id # 0
    /\ n.depth = (IF variant = "header" THEN 3 ELSE 2)

C18_NoHeadingInsideSection ==
    LastStage = "wrapOperationsWithDetails" =>
        \A cs \in Lists(tree) : \A i \in 1..Len(cs) : \A j \in (i + 1)..Len(cs) :
            (cs[i].owner # 0 /\ IsOpenOf(cs[i], cs[i].owner) /\ IsCloseOf(cs[j], cs[i].owner)) =>
                /\ \A p \in (i + 1)..(j - 1) : ~IsHeading(2, TRUE, cs[p])
                /\ \A q \in (j + 1)..Len(cs) :
                      (cs[q].id # 0 /\ \A r \in (j + 1)..(q - 1) : cs[r].id = 0) =>
                          IsHeading(2, TRUE, cs[q])

\* -------------------------------------------------------------------- C19
\* the ids of the nodes of the tree cs, in document order, that the test of
\* a traversal accepts
MatchingIds(kind, cs) ==
    LET m == SelectSeq(Flatten(cs),
                       LAMBDA n : Test(kind, Ctx(variant, specs, specsDiff), n))
    IN [i \in 1..Len(m) |-> m[i].id]

NotifierThrew == LastStage = "insertChangeNotifier" /\ pc = "failed"

Carriers(ss, operationId) ==
    { t \in UNION { UNION { { <<d, r, o>> :
                                o \in 1..Len(ss[d].paths[r].operations) } :
                            r \in 1..Len(ss[d].paths) } :
                    d \in 1..Len(ss) } :
        ss[t[1]].paths[t[2]].operations[t[3]].operationId = operationId }

\* place t is scanned before place u, or is u
ScannedBefore(t, u) ==
    \/ t[1] < u[1]
    \/ t[1] = u[1] /\ t[2] < u[2]
    \/ t[1] = u[1] /\ t[2] = u[2] /\ t[3] <= u[3]

\* C20: getOperationLocation returns undefined when no operation of any
\* document carries the identifier; otherwise it returns paths.<route>.<method>
\* of the carrier that comes first when the documents are scanned in the
\* given order, base before head, and the routes and the methods of a
\* document in insertion order.
C20_FirstScannedWins ==
    lpc = "returned" =>
        LET hits == Carriers(lSpecs, lId)
        IN IF hits = {} THEN lResult = Absent
           ELSE LET t == CHOOSE x \in hits : \A u \in hits : ScannedBefore(x, u)
                    path == lSpecs[t[1]].paths[t[2]]
                IN lResult = Some(<<"paths", ".">> \o path.route \o <<".">>
                                  \o path.operations[t[3]].method)

\* the base carries the identifier at /q post, after another operation, and
\* the head carries it at /p get
C20_Witness ==
    /\ lpc = "returned"
    /\ lId = "a"
    /\ lSpecs[1].paths = << [route |-> <<"/q">>,
                             operations |-> << [method |-> <<"get">>, operationId |-> "b"],
                                               [method |-> <<"post">>, operationId |-> "a"] >>] >>
    /\ lSpecs[2].paths = << [route |-> <<"/p">>,
                             operations |-> << [method |-> <<"get">>, operationId |-> "a"] >>] >>
    /\ lResult = Some(<<"paths", ".", "/q", ".", "post">>)

\* -------------------------------------------------------------------- C21
\* the other variant of the pipeline
OtherVariant(v) == IF v = "header" THEN "basic" ELSE "header"

\* the stripper, the collapser and the notifier inserter of variant v, one
\* after the other, on the tree t
FirstThreeStages(v, ss, diff, t) ==
    InsertChangeNotifier(v, ss, diff,
                         WrapOperationsWithDetails(v, RemoveUnwantedNodes(v, t)))

\* the documents on which the variants are meant to agree: no html node that
\* holds a heading tag, no heading of depth 1 and no heading whose text is
\* Authentication
CommonDocument(cs) ==
    \A i \in 1..Len(Flatten(cs)) :
        LET n == Flatten(cs)[i]
        IN /\ n.type = "html" =>
                 (HtmlHeadingDepth(n.value) = 0 /\ ~HasHeadingTag(n.value)
                  /\ ~StartsWithH1(n.value))
           /\ n.type = "heading" =>
                 (n.depth # 1 /\ FindTextValue(n) # Some(AuthText))

ThreeStagesDone ==
    Len(stages) = 3 /\ LastStage = "insertChangeNotifier"

\* C21: on a document without html headings, depth-1 headings and
\* Authentication headings, the stripper, the collapser and the notifier
\* inserter of the header variant and of the basic variant leave the same
\* tree, and the notifier inserter of the one throws exactly when that of
\* the other does.
C21_VariantsAgree ==
    (ThreeStagesDone /\ CommonDocument(parsed)) =>
        LET other == FirstThreeStages(OtherVariant(variant), specs, specsDiff, parsed)
        IN /\ tree = other.cs
           /\ (pc = "failed") = other.err

\* the header variant has stripped a blockquote, wrapped the operation and
\* put a marker after its heading
C21_Witness ==
    /\ ThreeStagesDone /\ CommonDocument(parsed) /\ pc = "running"
    /\ variant = "header"
    /\ Len(parsed) = 4 /\ Len(tree) = 6
    /\ parsed[1].type = "blockquote"
    /\ MarkerAt(tree, 21) # {} /\ OpenAt(tree, 21) # {} /\ CloseAt(tree, 21) # {}

\* -------------------------------------------------------------------- C22
\* a step of the Section Collapser or of the Change Notifier Inserter
InsertingStep ==
    /\ LastStage' # LastStage
    /\ LastStage' \in {"wrapOperationsWithDetails", "insertChangeNotifier"}

\* C22: a step of the Section Collapser or of the Change Notifier Inserter,
\* one that throws included, only adds nodes: the tree it leaves, without
\* the nodes the stages inserted, is the tree it received without them,
\* node for node and in the same order, and it holds at least as many
\* nodes; the spec documents and the DiffOutcome are left as they were.
C22_OnlyInsertions ==
    [][ InsertingStep =>
            /\ Original(tree') = Original(tree)
            /\ Len(Flatten(tree')) >= Len(Flatten(tree))
            /\ \A i \in 1..Len(Flatten(tree')) :
                  LET n == Flatten(tree')[i]
                  IN n.id = 0 =>
                        (n.type \in {"html", "paragraph", "text", "strong"})
            /\ specs' = specs
            /\ specsDiff' = specsDiff ]_vars

\* the basic variant has put two section markers and a notifier paragraph
\* between the nodes of a stripped document of four nodes
C22_Witness ==
    /\ variant = "basic" /\ LastStage = "insertChangeNotifier" /\ pc = "running"
    /\ Len(stripped) = 4 /\ Len(tree) = 7
    /\ Original(tree) = stripped
    /\ wrapped # stripped /\ tree # wrapped

\* -------------------------------------------------------------------- C23
\* the comments posted for spec s
CommentsOf(s) == { i \in 1..Len(comments) : comments[i] = s }

\* the calls of setFailed in the catch of run() with the error of spec s
ReportsOf(s) ==
    { i \in 1..Len(failures) : failures[i] = Failure("error", s) }

\* run() has returned and every processSpec has resolved or rejected
AllSettledAndReturned ==
    /\ rpc = "returned"
    /\ \A s \in DOMAIN procs : procs[s].state # "pending"

\* every processSpec whose awaited calls all resolved has posted exactly one
\* comment, no other has posted any, and a pending processSpec can go on
\* whatever has become of the others and of run()
EachSpecOnItsOwn ==
    \A s \in DOMAIN procs :
        /\ Cardinality(CommentsOf(s)) = (IF procs[s].state = "resolved" THEN 1 ELSE 0)
        /\ procs[s].state = "pending" => ENABLED CallReturns(s)

\* C23 as stated: each spec is processed on its own, and the failure of
\* every spec that failed has been reported through setFailed once run()
\* has returned.
C23_EveryFailureReported ==
    /\ EachSpecOnItsOwn
    /\ AllSettledAndReturned =>
          \A s \in DOMAIN procs :
              procs[s].state = "rejected" => ReportsOf(s) # {}

\* C23: each spec is processed on its own; once run() has returned after a
\* rejection, its catch has called setFailed exactly once, with the error
\* of the spec that rejected first, and the error of a spec that rejects
\* later is reported nowhere.
C23_FirstFailureReported ==
    /\ EachSpecOnItsOwn
    /\ \A s \in DOMAIN procs :
          Cardinality(ReportsOf(s)) =
              (IF rpc = "returned" /\ rejected = s THEN 1 ELSE 0)
    /\ rejected # 0 => procs[rejected].state = "rejected"
    /\ rejected = 0 => \A s \in DOMAIN procs : procs[s].state # "rejected"

\* the first spec rejected and run() returned while the second was still at
\* its first call; the second has posted its comment since
C23_Witness ==
    /\ AllSettledAndReturned
    /\ Len(procs) = 2
    /\ procs[1].state = "rejected" /\ procs[1].awaiting = 3
    /\ procs[2].state = "resolved" /\ procs[2].breaking
    /\ comments = <<2>>
    /\ failures = << Failure("error", 1), Failure("Breaking changes were found", 2) >>

\* -------------------------------------------------------------------- C24
\* the calls of setFailed on account of the breaking changes of spec s
BreakingReportsOf(s) ==
    { i \in 1..Len(failures) :
        failures[i] = Failure("Breaking changes were found", s) }

\* the diff of spec s is there: diffSpecs has resolved
DiffKnown(s) == procs[s].awaiting >= 4

\* C24: from the moment diffSpecs has resolved for a spec with
\* breakingDifferencesFound true, and so before the documentation
\* converter has returned anything, setFailed has been called exactly once
\* for that spec, provided the option is true or not set; the processing of
\* the spec goes on all the same, and a spec that resolves has posted its
\* comment.  With the option false, or the flag false, or the diff not yet
\* there, setFailed has not been called on account of breaking changes.
C24_FailsBeforeDocs ==
    \A s \in DOMAIN procs :
        /\ Cardinality(BreakingReportsOf(s)) =
              (IF DiffKnown(s) /\ procs[s].breaking
                  /\ context.failOnBreakingChanges \in {"undefined", "true"}
               THEN 1 ELSE 0)
        /\ ~DiffKnown(s) => ~procs[s].breaking
        /\ (procs[s].state = "pending" /\ procs[s].breaking) => ENABLED CallReturns(s)
        /\ (procs[s].state = "resolved" /\ procs[s].breaking) =>
              \E i \in 1..Len(comments) : comments[i] = s

\* the option is not set: setFailed was called for the one changed spec
\* while the converter was still awaited
C24_Witness ==
    /\ context.failOnBreakingChanges = "undefined"
    /\ Len(procs) = 1
    /\ procs[1].state = "pending" /\ procs[1].breaking
    /\ procs[1].calls = SubSeq(ProcessSteps, 1, 4)
    /\ failures = << Failure("Breaking changes were found", 1) >>
    /\ comments = <<>>

\* -------------------------------------------------------------------- C25
\* C25: with a context without pull request, run() never gets to the
\* changed-file lookup, starts no processSpec, so that no file is fetched
\* and no comment posted, and returns after one call of setFailed, with
\* the Missing PR context error, made from its own catch.
C25_MissingPullRequest ==
    ~context.pullRequest =>
        /\ rpc \in {"start", "returned"}
        /\ procs = <<>> /\ comments = <<>> /\ rejected = 0
        /\ failures = (IF rpc = "returned"
                       THEN << Failure("Missing PR context", 0) >> ELSE <<>>)

C25_Witness ==
    /\ ~context.pullRequest
    /\ rpc = "returned"
    /\ failures = << Failure("Missing PR context", 0) >>
    /\ procs = <<>> /\ comments = <<>>

====
